---- MODULE Spec2Model ----
(***************************************************************************)
(* A model of the StoryGenome clustering pipeline (src/ml/cluster.py), of  *)
(* the SQLite store it writes (src/database.py), of the news ingester's    *)
(* store_articles (src/ingest/fetch_news.py) and of the bias scorer's      *)
(* score_article (src/ml/score_bias.py).                                   *)
(*                                                                         *)
(* Specifications:                                                         *)
(*   Spec       the pipeline, one invocation at a time                     *)
(*   SpecConc   the pipeline with a second, concurrent embedding store     *)
(*   SpecJob    one clustering run on a store filled by two concurrent      *)
(*              embedding-store invocations                                *)
(*   SpecStore  the cluster store alone: update_clusters called with       *)
(*              arbitrary arguments, create_demo_clusters, failing inserts *)
(*   SpecTxn    two concurrent update_clusters calls, statement by         *)
(*              statement, each in its connection's transaction            *)
(*   SpecModels the embedding store on rows of another model name          *)
(*   SpecText   the pure functions preprocess_text and generate_embeddings *)
(*   SpecPreview generate_embeddings on articles with title and text       *)
(*   SpecDocs   run_clustering on articles with title and text             *)
(*   SpecLabel  the labelling of one cluster from the vectorizer's terms   *)
(*   SpecLive   the embedding store invoked again and again, with weak     *)
(*              fairness of the invocation                                 *)
(*   SpecAfter  clustering runs and embedding-store invocations on a store *)
(*              with the demo cluster and several rows per article         *)
(*   SpecPure   the pure functions cluster_articles and                    *)
(*              generate_cluster_labels applied to bounded inputs          *)
(*   SpecIngest two ingesters in store_articles, article by article        *)
(*   SpecScore  score_article calls of one bias scorer and its cache       *)
(***************************************************************************)
EXTENDS Integers, Sequences, FiniteSets, Bags, TLC

VARIABLES
    articles,    \* table articles: a sequence of rows, the id is the index
    embeddings,  \* table embeddings: a bag of rows [article_id, model_name]
    clusters,    \* table clusters: a set of rows [cluster_id, label]
    members,     \* table cluster_members: a set of rows [cluster_id, article_id]
    inflight,    \* a second, concurrent embedding-store invocation
    last,        \* the pipeline operation that completed last, and its result
    call,        \* the last direct call of a store or pure function
    txn,         \* per connection: its update_clusters call and transaction
    ingest,      \* per ingester: its store_articles call and position in it
    scorer       \* the bias scorer: its prompt template and its cache files

vars == <<articles, embeddings, clusters, members, inflight, last, call, txn, ingest, scorer>>

----------------------------------------------------------------------------
(* Bounds of the model *)

\* articles the store holds at most
MaxArticles == 3
\* rows the embeddings table holds at most
MaxEmbeddingRows == 4
\* rows the embeddings table holds at most before the one clustering run of
\* SpecJob: twice MIN_CLUSTER_SIZE, the fewest rows on which clusters form
MaxJobRows == 6
\* article ids a direct caller of update_clusters passes: 1..MaxArgArticles
MaxArgArticles == 2
\* rows a direct caller of generate_cluster_labels passes
MaxPureRows == 4
\* rows a direct caller of cluster_articles passes
MaxClusterRows == 6
\* characters of a text a direct caller of preprocess_text passes
MaxTextLen == 5
\* the highest summed weight of a term
MaxWeight == 2
\* articles in the store the embedding store is invoked on again and again
MaxLiveArticles == 4
\* clustering runs on one store
MaxRuns == 2

(* Program constants *)

\* config.py:38
MIN_CLUSTER_SIZE == 3
\* the noise sentinel, cluster.py:99 and database.py:207
NOISE == -1
\* create_demo_data.py:223: the demo cluster's id
DEMO_CLUSTER_ID == 1
\* cluster.py:69: a processed text is embedded only if it is longer than this
MIN_TEXT_LEN == 50
\* cluster.py:216: get_articles_without_embeddings(limit=50). The model scales
\* the batch limit of 50 down to 2, so that a store with more unembedded
\* articles than one batch holds is within MaxArticles.
EMBED_BATCH_LIMIT == 2
\* cluster.py:34: TfidfVectorizer(min_df=2)
MIN_DF == 2
\* cluster.py:155: argsort()[-5:], the five highest sums
TOP_INDICES == 5
\* cluster.py:160: top_terms[:3]
TOP_TERMS == 3
\* config.py:37: the active model name
EMBEDDING_MODEL == "sentence-transformers/all-mpnet-base-v2"
\* database.py:52: the model name the schema gives a row by default, a name
\* other than the active one
OTHER_MODEL == "all-mpnet-base-v2"

\* cluster ids a direct caller passes: the noise sentinel and two clusters
ArgClusterIds == {NOISE, 0, 1}

----------------------------------------------------------------------------
(* Helpers *)

Range(f) == {f[x] : x \in DOMAIN f}

Min(S) == CHOOSE x \in S : \A y \in S : x <= y

\* The elements of a finite set of integers, ascending.
RECURSIVE SetToSeq(_)
SetToSeq(S) == IF S = {} THEN <<>> ELSE <<Min(S)>> \o SetToSeq(S \ {Min(S)})

----------------------------------------------------------------------------
(* Labels are strings, modelled as sequences of characters. *)

\* f"Cluster {cluster_id}", cluster.py:145,163,169
Digits(n) ==
    IF n < 0 THEN <<"-", n * (-1)>> ELSE <<n>>

FallbackLabel(cluster_id) ==
    <<"C", "l", "u", "s", "t", "e", "r", " ">> \o Digits(cluster_id)

\* the demo cluster's label, create_demo_data.py:223
DemoLabel == <<"A", "I", " ", "R", "e", "g">>

----------------------------------------------------------------------------
(* The cluster store: database.py update_clusters *)

NoTables == [clusters |-> {}, members |-> {}]

\* sqlite3.connect() never issues PRAGMA foreign_keys = ON, so SQLite does not
\* enforce the FOREIGN KEY clauses of the schema.
ForeignKeysEnforced == FALSE

\* INSERT INTO clusters (cluster_id, label): cluster_id is the PRIMARY KEY.
InsertCluster(t, cluster_id, label) ==
    IF \E c \in t.clusters : c.cluster_id = cluster_id
    THEN [ok |-> FALSE, tables |-> t]
    ELSE [ok |-> TRUE,
          tables |-> [t EXCEPT !.clusters =
                        @ \cup {[cluster_id |-> cluster_id, label |-> label]}]]

\* INSERT INTO cluster_members (cluster_id, article_id):
\* UNIQUE(cluster_id, article_id); the foreign keys are checked only if enforced.
InsertMember(t, cluster_id, article_id) ==
    IF \/ [cluster_id |-> cluster_id, article_id |-> article_id] \in t.members
       \/ /\ ForeignKeysEnforced
          /\ ~ \E c \in t.clusters : c.cluster_id = cluster_id
    THEN [ok |-> FALSE, tables |-> t]
    ELSE [ok |-> TRUE,
          tables |-> [t EXCEPT !.members =
                        @ \cup {[cluster_id |-> cluster_id, article_id |-> article_id]}]]

ExecInsert(t, s) ==
    IF s.table = "clusters"
    THEN InsertCluster(t, s.cluster_id, s.label)
    ELSE InsertMember(t, s.cluster_id, s.article_id)

\* The INSERT statements of update_clusters in the order it issues them: one
\* per item of cluster_labels, then one per item of cluster_assignments whose
\* cluster id is >= 0. (A dict iterates in insertion order; the model takes
\* the keys ascending, the resulting tables do not depend on the order.)
ClusterInserts(cluster_labels) ==
    LET ks == SetToSeq(DOMAIN cluster_labels) IN
    [i \in 1..Len(ks) |->
        [table |-> "clusters", cluster_id |-> ks[i], label |-> cluster_labels[ks[i]]]]

MemberInsertsAll(cluster_assignments) ==
    LET ks == SetToSeq(DOMAIN cluster_assignments) IN
    [i \in 1..Len(ks) |->
        [table |-> "members", cluster_id |-> cluster_assignments[ks[i]],
         article_id |-> ks[i]]]

MemberInserts(cluster_assignments) ==
    SelectSeq(MemberInsertsAll(cluster_assignments), LAMBDA s : s.cluster_id >= 0)

UpdateInserts(cluster_assignments, cluster_labels) ==
    ClusterInserts(cluster_labels) \o MemberInserts(cluster_assignments)

ClearNothing(t) == t

ClearClustersOnly(t) == [clusters |-> {c \in t.clusters : FALSE}, members |-> t.members]

\* DELETE FROM cluster_members; DELETE FROM clusters
ClearExisting(t) ==
    [clusters |-> {c \in t.clusters : FALSE}, members |-> {m \in t.members : FALSE}]

\* Runs the statements stmts[i..] on the connection's tables t. failAt names
\* the statement whose execution fails for a reason outside the program
\* (I/O error, lock), 0 for none. Returns the tables the connection sees and
\* whether an exception left the block.
RECURSIVE RunInserts(_, _, _, _)
RunInserts(t, stmts, i, failAt) ==
    IF i > Len(stmts) THEN [raised |-> FALSE, tables |-> t]
    ELSE IF i = failAt THEN [raised |-> TRUE, tables |-> t]
    ELSE LET r == ExecInsert(t, stmts[i]) IN
         IF r.ok THEN RunInserts(r.tables, stmts, i + 1, failAt)
         ELSE [raised |-> TRUE, tables |-> t]

ConnectionExitNoRollback(before, r) ==
    [raised |-> r.raised, tables |-> r.tables]

\* "with self.get_connection() as conn": sqlite3's connection context manager
\* commits when the block ends normally and rolls back when an exception
\* leaves it; the DELETEs and INSERTs run in one implicit transaction.
ConnectionExit(before, r) ==
    [raised |-> r.raised, tables |-> IF r.raised THEN before ELSE r.tables]

\* update_clusters(cluster_assignments, cluster_labels) on the tables `before`
UpdateClusters(before, cluster_assignments, cluster_labels, failAt) ==
    ConnectionExit(before,
        RunInserts(ClearExisting(before),
                   UpdateInserts(cluster_assignments, cluster_labels), 1, failAt))

\* create_demo_clusters(article_ids): one cluster row and one membership row
\* per article, in one transaction; nothing is deleted first.
DemoInserts(article_ids) ==
    <<[table |-> "clusters", cluster_id |-> DEMO_CLUSTER_ID, label |-> DemoLabel]>>
    \o [i \in 1..Len(article_ids) |->
          [table |-> "members", cluster_id |-> DEMO_CLUSTER_ID,
           article_id |-> article_ids[i]]]

CreateDemoClusters(before, article_ids) ==
    ConnectionExit(before, RunInserts(before, DemoInserts(article_ids), 1, 0))

Tables == [clusters |-> clusters, members |-> members]

----------------------------------------------------------------------------
(* Strings: str.replace and str.title on the characters the model uses *)

LowerChars == <<"a", "i", "l", "w">>
UpperChars == <<"A", "I", "L", "W">>

IsLower(c) == \E i \in 1..Len(LowerChars) : LowerChars[i] = c
IsUpper(c) == \E i \in 1..Len(UpperChars) : UpperChars[i] = c
IsCased(c) == IsLower(c) \/ IsUpper(c)

ToUpper(c) ==
    IF IsLower(c) THEN UpperChars[CHOOSE i \in 1..Len(LowerChars) : LowerChars[i] = c]
    ELSE c

ToLower(c) ==
    IF IsUpper(c) THEN LowerChars[CHOOSE i \in 1..Len(UpperChars) : UpperChars[i] = c]
    ELSE c

\* str.title(): a cased character is upper-cased when it follows an uncased
\* one (or starts the string) and lower-cased otherwise.
Title(str) ==
    [i \in 1..Len(str) |->
        IF ~IsCased(str[i]) THEN str[i]
        ELSE IF i = 1 \/ ~IsCased(str[i - 1]) THEN ToUpper(str[i])
        ELSE ToLower(str[i])]

\* str.replace('_', ' ')
ReplaceUnderscores(str) ==
    [i \in 1..Len(str) |-> IF str[i] = "_" THEN " " ELSE str[i]]

\* " ".join(terms)
RECURSIVE JoinSpace(_)
JoinSpace(terms) ==
    IF Len(terms) = 0 THEN <<>>
    ELSE IF Len(terms) = 1 THEN terms[1]
    ELSE terms[1] \o <<" ">> \o JoinSpace(Tail(terms))

\* seq[:n]
Prefix(seq, n) == SubSeq(seq, 1, IF n < Len(seq) THEN n ELSE Len(seq))

\* seq[-n:]
Suffix(seq, n) == SubSeq(seq, IF Len(seq) > n THEN Len(seq) - n + 1 ELSE 1, Len(seq))

\* seq[::-1]
Reverse(seq) == [i \in 1..Len(seq) |-> seq[Len(seq) + 1 - i]]

----------------------------------------------------------------------------
(* The text normalizer: cluster.py preprocess_text, on texts over a few
   characters: a letter in both cases, the underscore, the space, a character
   outside the whitelist and the two tag delimiters *)

TextChars == {"a", "A", "_", " ", "@", "<", ">"}

\* \w: letters, digits and the underscore
IsWordChar(c) == c \in {"a", "A", "_"}

\* \s: the space is the only whitespace character among TextChars
IsSpace(c) == c = " "

\* [\w\s\.\,\!\?\-]: the characters line 49 keeps
IsWhitelisted(c) == IsWordChar(c) \/ IsSpace(c) \/ c \in {".", ",", "!", "?", "-"}

\* the characters of text at the positions keep holds for, in order
Keep(text, keep(_)) ==
    LET kept == SelectSeq([p \in 1..Len(text) |-> p], keep)
    IN [k \in 1..Len(kept) |-> text[kept[k]]]

\* re.sub(r'<[^>]+>', '', text): scanning from the left, a '<' followed by
\* one or more characters other than '>' and then a '>' is removed; a '<'
\* with no '>' after it, or with the next '>' right after it, stays. A match
\* ends at the first '>' after its '<', so position p is inside a match iff
\* a '>' follows at or after p and, since the '>' before p, there is a '<'
\* at or before p that is at least two positions before that '>'.
RemoveTags(text) ==
    LET closes == {j \in 1..Len(text) : text[j] = ">"}
        opens == {i \in 1..Len(text) : text[i] = "<"}
        InTag(p) ==
            LET after == {j \in closes : j >= p}
                before == {j \in closes : j < p}
            IN /\ after # {}
               /\ \E i \in opens :
                    /\ \A j \in before : j < i
                    /\ i <= p
                    /\ i <= Min(after) - 2
    IN Keep(text, LAMBDA p : ~InTag(p))

\* re.sub(r'\s+', ' ', text): each run of whitespace becomes one space
CollapseWhitespace(text) ==
    LET spaced == [p \in 1..Len(text) |-> IF IsSpace(text[p]) THEN " " ELSE text[p]]
    IN Keep(spaced, LAMBDA p : ~(IsSpace(text[p]) /\ p > 1 /\ IsSpace(text[p - 1])))

\* str.strip()
Strip(text) ==
    LET solid == {p \in 1..Len(text) : ~IsSpace(text[p])}
    IN Keep(text, LAMBDA p : (\E q \in solid : q <= p) /\ (\E q \in solid : q >= p))

\* re.sub(r'[^\w\s\.\,\!\?\-]', '', text)
RemoveOutsideWhitelist(text) == SelectSeq(text, IsWhitelisted)

\* str.lower()
Lower(text) == [i \in 1..Len(text) |-> ToLower(text[i])]

\* preprocess_text(text): the four steps in the order of lines 43-51
PreprocessText(text) ==
    IF Len(text) = 0 THEN <<>>
    ELSE Lower(RemoveOutsideWhitelist(
            Strip(CollapseWhitespace(RemoveTags(text)))))

\* cluster.py:64, text[:1000]
PREVIEW_CHARS == 1000

TextWhole(text) == text

\* text_preview = text[:1000] if text else ""
TextPreview(text) == SubSeq(text, 1, Min({Len(text), PREVIEW_CHARS}))

\* processed_text of generate_embeddings: preprocess_text(f"{title}. {text_preview}")
EmbeddingText(article) ==
    PreprocessText(article.title \o <<".", " ">> \o TextPreview(article.text))

----------------------------------------------------------------------------
(* The label generator: cluster.py generate_cluster_labels *)

\* What TfidfVectorizer.fit_transform and the column sums give for one
\* cluster's texts: an exception, or the feature names with their summed
\* weights. The vectorizer is a library; the model lets it produce any of
\* these outcomes, and a weight of 0 as well.
FitRaises == [raised |-> TRUE, features |-> <<>>, sums |-> <<>>]

TermAi == <<"a", "i">>
TermLaw == <<"l", "a", "w">>
TermAiLaw == <<"a", "i", "_", "l", "a", "w">>
TermUnderscores == <<"_", "_">>

TfidfOutcomes ==
    { FitRaises,
      [raised |-> FALSE, features |-> <<TermAi>>, sums |-> <<0>>],
      [raised |-> FALSE, features |-> <<TermUnderscores, TermAiLaw, TermLaw, TermAi>>,
                         sums |-> <<1, 3, 2, 0>>] }

\* min_df=2: with fewer than two documents fit_transform raises ValueError.
TfidfFit(n_docs) == IF n_docs < MIN_DF THEN {FitRaises} ELSE TfidfOutcomes

\* numpy argsort of a short array: indices by ascending value, ties by index
RECURSIVE ArgsortFrom(_, _)
ArgsortFrom(sums, left) ==
    IF left = {} THEN <<>>
    ELSE LET i == CHOOSE x \in left :
                    \A y \in left : sums[x] < sums[y] \/ (sums[x] = sums[y] /\ x <= y)
         IN <<i>> \o ArgsortFrom(sums, left \ {i})

Argsort(sums) == ArgsortFrom(sums, DOMAIN sums)

TopIndicesAscending(sums) == Suffix(Argsort(sums), TOP_INDICES)

\* tfidf_sums.argsort()[-5:][::-1]
TopIndices(sums) == Reverse(Suffix(Argsort(sums), TOP_INDICES))

\* [feature_names[i] for i in top_indices if tfidf_sums[i] > 0]
TopTerms(outcome) ==
    LET kept == SelectSeq(TopIndices(outcome.sums), LAMBDA i : outcome.sums[i] > 0)
    IN [k \in 1..Len(kept) |-> outcome.features[kept[k]]]

\* lines 159-163
LabelFromTerms(cluster_id, top_terms) ==
    IF Len(top_terms) > 0
    THEN Title(ReplaceUnderscores(JoinSpace(Prefix(top_terms, TOP_TERMS))))
    ELSE FallbackLabel(cluster_id)

LabelStepNoCatch(cluster_id, outcome) ==
    [raised |-> outcome.raised,
     label |-> IF outcome.raised THEN <<>>
               ELSE LabelFromTerms(cluster_id, TopTerms(outcome))]

\* The try/except of lines 149-169 for one cluster: an exception of the
\* vectorizer is caught and the fallback label is stored.
LabelStep(cluster_id, outcome) ==
    [raised |-> FALSE,
     label |-> IF outcome.raised THEN FallbackLabel(cluster_id)
               ELSE LabelFromTerms(cluster_id, TopTerms(outcome))]

\* lines 127-132: the non-noise cluster ids in the order of their first row
RECURSIVE ClusterOrder(_, _, _)
ClusterOrder(cluster_labels, i, acc) ==
    IF i > Len(cluster_labels) THEN acc
    ELSE IF cluster_labels[i] >= 0 /\ ~ \E k \in 1..Len(acc) : acc[k] = cluster_labels[i]
    THEN ClusterOrder(cluster_labels, i + 1, Append(acc, cluster_labels[i]))
    ELSE ClusterOrder(cluster_labels, i + 1, acc)

\* the number of texts of a cluster: one per row that carries its label
ClusterDocs(cluster_labels, cluster_id) ==
    Cardinality({i \in 1..Len(cluster_labels) : cluster_labels[i] = cluster_id})

\* the loop with a step that ends it once a fit has raised
RECURSIVE LabelLoopAbort(_, _, _, _)
LabelLoopAbort(order, i, fit, dict) ==
    IF i > Len(order) THEN [raised |-> FALSE, dict |-> dict]
    ELSE IF fit[order[i]].raised
    THEN [raised |-> FALSE, dict |-> dict @@ (order[i] :> FallbackLabel(order[i]))]
    ELSE LabelLoopAbort(order, i + 1, fit,
            dict @@ (order[i] :> LabelStep(order[i], fit[order[i]]).label))

\* lines 135-169: the loop over the clusters. An exception that leaves a step
\* ends the loop and the function.
RECURSIVE LabelLoop(_, _, _, _)
LabelLoop(order, i, fit, dict) ==
    IF i > Len(order) THEN [raised |-> FALSE, dict |-> dict]
    ELSE LET r == LabelStep(order[i], fit[order[i]]) IN
         IF r.raised THEN [raised |-> TRUE, dict |-> dict]
         ELSE LabelLoop(order, i + 1, fit, dict @@ (order[i] :> r.label))

\* generate_cluster_labels(articles, cluster_labels): articles[i] is the row
\* of cluster_labels[i]; fit gives the vectorizer's outcome for each cluster.
GenerateClusterLabels(cluster_labels, fit) ==
    LabelLoop(ClusterOrder(cluster_labels, 1, <<>>), 1, fit, <<>>)

\* the vectorizer outcomes possible for the clusters of cluster_labels
Fits(cluster_labels) ==
    LET ids == {c \in Range(cluster_labels) : c >= 0} IN
    {f \in [ids -> TfidfOutcomes] :
        \A c \in ids : f[c] \in TfidfFit(ClusterDocs(cluster_labels, c))}

----------------------------------------------------------------------------
(* The density clusterer: cluster.py cluster_articles *)

\* the clusters of a label array
ClusterIds(l) == {c \in Range(l) : c >= 0}

\* HDBSCAN(min_cluster_size=MIN_CLUSTER_SIZE, min_samples=MIN_SAMPLES,
\* metric='euclidean', cluster_selection_method='eom').fit_predict on n rows:
\* one label per row, the noise label or a cluster index; the indices are
\* dense from 0 and every cluster has at least MIN_CLUSTER_SIZE rows. The
\* call does not pass allow_single_cluster, which defaults to False: the root
\* of the cluster tree is never selected, so the result has no cluster or at
\* least two. Which rows it groups depends on the vectors, which the model
\* leaves open.
HDBSCAN(n) ==
    {l \in [1..n -> NOISE..((n \div MIN_CLUSTER_SIZE) - 1)] :
        /\ \A c \in 0..((n \div MIN_CLUSTER_SIZE) - 1) :
              \/ ClusterDocs(l, c) >= MIN_CLUSTER_SIZE
              \/ \A d \in c..((n \div MIN_CLUSTER_SIZE) - 1) : ClusterDocs(l, d) = 0
        /\ Cardinality(ClusterIds(l)) # 1}

ClusterArticlesNoRows(n) ==
    IF n < MIN_CLUSTER_SIZE THEN {<<>>} ELSE HDBSCAN(n)

\* cluster_articles(embeddings) for a matrix of n rows: the label arrays it
\* can return
ClusterArticles(n) ==
    IF n < MIN_CLUSTER_SIZE THEN {[i \in 1..n |-> NOISE]} ELSE HDBSCAN(n)

----------------------------------------------------------------------------
(* The embedding store: cluster.py generate_embeddings_for_unprocessed *)

ArticleIds == 1..Len(articles)

Embedded(emb) == {e.article_id : e \in BagToSet(emb)}

\* get_articles_without_embeddings(limit): LEFT JOIN embeddings ... WHERE
\* e.id IS NULL LIMIT ?: `limit` of the articles without any embedding row,
\* or all of them if there are fewer. The query has no ORDER BY, so which
\* ones is left to SQLite: the possible result sets.
Unembedded == ArticleIds \ Embedded(embeddings)

GetArticlesWithoutEmbeddings(limit) ==
    {B \in SUBSET Unembedded :
        Cardinality(B) = IF Cardinality(Unembedded) < limit
                         THEN Cardinality(Unembedded) ELSE limit}

\* generate_embeddings(articles) on the articles `batch` of the rows `rows`:
\* the ids of the articles whose processed text is longer than MIN_TEXT_LEN
\* characters (line 69: len(processed_text) > 50)
GenerateEmbeddingsOf(rows, batch) ==
    SetToSeq({a \in batch : rows[a].plen > MIN_TEXT_LEN})

GenerateEmbeddings(batch) == GenerateEmbeddingsOf(articles, batch)

\* generate_embeddings on a list of articles with title and text: the
\* processed texts and the ids (here: positions) of the articles included
GenerateEmbeddingsFromText(arts) ==
    LET processed == [a \in 1..Len(arts) |-> EmbeddingText(arts[a])]
    IN [processed |-> processed,
        article_ids |->
            GenerateEmbeddingsOf([a \in 1..Len(arts) |-> [plen |-> Len(processed[a])]],
                                 1..Len(arts))]

\* an insert into a table with UNIQUE(article_id): a second row is rejected
InsertEmbeddingUnique(emb, article_id, model_name) ==
    IF \E e \in BagToSet(emb) : e.article_id = article_id THEN emb
    ELSE emb (+) SetToBag({[article_id |-> article_id, model_name |-> model_name]})

\* an insert that replaces the rows of the table
InsertEmbeddingReplacing(emb, article_id, model_name) ==
    SetToBag({[article_id |-> article_id, model_name |-> model_name]})

\* insert_embedding(article_id, vector, model_name): a plain INSERT, the
\* table has no UNIQUE constraint
InsertEmbedding(emb, article_id, model_name) ==
    emb (+) SetToBag({[article_id |-> article_id, model_name |-> model_name]})

\* store_embeddings(article_ids, embeddings): one insert per id, in its own
\* transaction; an insert that fails (the ids in failing) is logged and skipped
RECURSIVE StoreEmbeddings(_, _, _)
StoreEmbeddings(emb, article_ids, failing) ==
    IF Len(article_ids) = 0 THEN emb
    ELSE StoreEmbeddings(
            IF Head(article_ids) \in failing THEN emb
            ELSE InsertEmbedding(emb, Head(article_ids), EMBEDDING_MODEL),
            Tail(article_ids), failing)

----------------------------------------------------------------------------
(* The pipeline: cluster.py run_clustering *)

\* the rows of article a under the active model in the embeddings table
EmbeddingRows(a) ==
    CopiesIn([article_id |-> a, model_name |-> EMBEDDING_MODEL], embeddings)

\* the rows of article a under any model name
AllRows(a) ==
    EmbeddingRows(a) + CopiesIn([article_id |-> a, model_name |-> OTHER_MODEL], embeddings)

\* get_all_embeddings(): embeddings JOIN articles, one item per embedding row
\* of an existing article, whatever its model_name. The items come ordered by published_at, which the
\* model does not hold: it lists them by article id.
RECURSIVE JoinedRowsOuter(_)
JoinedRowsOuter(a) ==
    IF a > Len(articles) THEN <<>>
    ELSE [i \in 1..(IF AllRows(a) = 0 THEN 1 ELSE AllRows(a)) |-> [article_id |-> a]]
         \o JoinedRowsOuter(a + 1)

RECURSIVE JoinedRows(_)
JoinedRows(a) ==
    IF a > Len(articles) THEN <<>>
    ELSE [i \in 1..AllRows(a) |-> [article_id |-> a]] \o JoinedRows(a + 1)

GetAllEmbeddings == JoinedRows(1)

\* lines 200-203: a dict, a later row of an article overwrites an earlier one
RECURSIVE ClusterAssignments(_, _, _, _)
ClusterAssignments(article_ids, cluster_labels, i, dict) ==
    IF i > Len(article_ids) THEN dict
    ELSE IF cluster_labels[i] >= 0
    THEN ClusterAssignments(article_ids, cluster_labels, i + 1,
            (article_ids[i] :> cluster_labels[i]) @@ dict)
    ELSE ClusterAssignments(article_ids, cluster_labels, i + 1, dict)

----------------------------------------------------------------------------
(* Initial state: the database right after init_database *)

NoOp == [op |-> "none", ret |-> 0, raised |-> FALSE, failed |-> FALSE]
NoCall == [op |-> "none"]
Idle == [pc |-> "idle", ids |-> <<>>]

\* the connections of two concurrent update_clusters calls
Conns == {"first", "second"}

\* a connection no call has used
NoTransaction ==
    [pc |-> "idle", open |-> FALSE, stmts |-> <<>>, i |-> 0, work |-> NoTables,
     overlapped |-> FALSE]

NoTransactions == [c \in Conns |-> NoTransaction]

\* the two news ingesters (NewsIngester objects) that may run at once
Ingesters == {"ingester1", "ingester2"}

\* an ingester that is not inside store_articles
NoIngestCall ==
    [pc |-> "idle", batch |-> <<>>, stored_count |-> 0, before |-> 0,
     skipped |-> FALSE, caught |-> FALSE, returned |-> 0]

NoIngest == [g \in Ingesters |-> NoIngestCall]

\* BiasScorer.__init__: the prompt template is loaded once; the cache
\* directory holds no file yet
NoScorer == [prompt_template |-> "file", cache |-> <<>>]

Init ==
    /\ articles = <<>>
    /\ embeddings = EmptyBag
    /\ clusters = {}
    /\ members = {}
    /\ inflight = Idle
    /\ last = NoOp
    /\ call = NoCall
    /\ txn = NoTransactions
    /\ ingest = NoIngest
    /\ scorer = NoScorer

----------------------------------------------------------------------------
(* Spec: the pipeline, one invocation at a time *)

\* the lengths of an article's processed text "title. text[:1000]" the model
\* draws: at the threshold (not embedded) and just above it (embedded)
ProcessedLengths == {MIN_TEXT_LEN, MIN_TEXT_LEN + 1}

\* the record of a completed operation: what it returned, whether it raised,
\* whether a failure was injected
Completed(op, ret, raised, failed) ==
    [op |-> op, ret |-> ret, raised |-> raised, failed |-> failed]

\* insert_article: the new row gets the next id
InsertArticle ==
    \E plen \in ProcessedLengths :
        /\ Len(articles) < MaxArticles
        /\ articles' = Append(articles, [plen |-> plen])
        /\ last' = Completed("insert_article", 0, FALSE, FALSE)
        /\ UNCHANGED <<embeddings, clusters, members, inflight, call, txn, ingest, scorer>>

\* What goes wrong in one invocation: the articles on which
\* generate_embeddings raises (text that cannot be sliced or encoded) and the
\* articles whose insert fails. One embedding error, or any set of insert
\* failures among the articles that are stored.
Injections(batch) ==
    {[erring |-> {}, failing |-> f] :
        f \in SUBSET {a \in batch : articles[a].plen > MIN_TEXT_LEN}}
    \cup {[erring |-> {a}, failing |-> {}] : a \in batch}

\* generate_embeddings_for_unprocessed() when the query returned batch: the
\* embeddings table afterwards, the number returned and whether the call
\* raised. generate_embeddings has no try/except: an error on one article
\* leaves it and the invocation before anything is stored.
EmbedUnprocessed(batch, inj) ==
    IF batch = {} THEN [raised |-> FALSE, ret |-> 0, embeddings |-> embeddings]
    ELSE IF inj.erring # {} THEN [raised |-> TRUE, ret |-> 0, embeddings |-> embeddings]
    ELSE LET article_ids == GenerateEmbeddings(batch) IN
         IF Len(article_ids) = 0
         THEN [raised |-> FALSE, ret |-> 0, embeddings |-> embeddings]
         ELSE [raised |-> FALSE, ret |-> Len(article_ids),
               embeddings |-> StoreEmbeddings(embeddings, article_ids, inj.failing)]

\* the state after a call that did r
EmbedDone(track, batch, inj, r, max_rows) ==
        /\ BagCardinality(r.embeddings) <= max_rows
        /\ embeddings' = r.embeddings
        /\ last' = IF ~track THEN Completed("embed", 0, FALSE, FALSE) ELSE
                   [op |-> "embed", ret |-> r.ret, raised |-> r.raised,
                    failed |-> inj.erring \cup inj.failing # {},
                    batch |-> batch, erring |-> inj.erring, failing |-> inj.failing,
                    \* the rows this call inserted
                    inserted |-> BagCardinality(r.embeddings) - BagCardinality(embeddings),
                    \* the operation before this call was an embed call too,
                    \* without a failure
                    after_embed |-> last.op = "embed" /\ ~last.failed]
        /\ UNCHANGED <<articles, clusters, members, inflight, call, txn, ingest, scorer>>

EmbedCall(track, max_rows) ==
    \E batch \in GetArticlesWithoutEmbeddings(EMBED_BATCH_LIMIT) :
      \E inj \in Injections(batch) :
        EmbedDone(track, batch, inj, EmbedUnprocessed(batch, inj), max_rows)

GenerateEmbeddingsForUnprocessed == EmbedCall(TRUE, MaxEmbeddingRows)

\* run_clustering() when the clusterer returns cluster_labels, the vectorizer
\* behaves as fit and the insert failAt of update_clusters fails (0: none)
RunClusteringResult(cluster_labels, fit, failAt) ==
    LET articles_data == GetAllEmbeddings
        article_ids == [i \in 1..Len(articles_data) |-> articles_data[i].article_id]
        cluster_labels_dict == GenerateClusterLabels(cluster_labels, fit).dict
        cluster_assignments == ClusterAssignments(article_ids, cluster_labels, 1, <<>>)
        r == UpdateClusters(Tables, cluster_assignments, cluster_labels_dict, failAt)
    IN [raised |-> r.raised, tables |-> r.tables,
        ret |-> IF r.raised THEN 0 ELSE Cardinality(DOMAIN cluster_labels_dict)]

\* the state after a run that did r
RunClusteringDone(failAt, r) ==
            /\ clusters' = r.tables.clusters
            /\ members' = r.tables.members
            /\ last' = [op |-> "run_clustering", ret |-> r.ret, raised |-> r.raised,
                        failed |-> failAt # 0,
                        \* rows of the demo cluster were in the tables
                        replaced |-> \E m \in members : m.cluster_id = DEMO_CLUSTER_ID]
            /\ UNCHANGED <<articles, embeddings, inflight, call, txn, ingest, scorer>>

ReturnsEarlyOnlyIfEmpty(n) == n = 0

\* lines 180 and 189: the run returns 0 when the query gave no row and when
\* it gave fewer rows than MIN_CLUSTER_SIZE
ReturnsEarly(n) == n = 0 \/ n < MIN_CLUSTER_SIZE

RunClustering ==
    \/ /\ ReturnsEarly(Len(GetAllEmbeddings))
       /\ last' = [op |-> "run_clustering", ret |-> 0, raised |-> FALSE,
                   failed |-> FALSE, replaced |-> FALSE]
       /\ UNCHANGED <<articles, embeddings, clusters, members, inflight, call, txn, ingest, scorer>>
    \/ /\ ~ReturnsEarly(Len(GetAllEmbeddings))
       /\ \E cluster_labels \in ClusterArticles(Len(GetAllEmbeddings)) :
          \E fit \in Fits(cluster_labels) :
          \E failAt \in {0, 1} :
            RunClusteringDone(failAt, RunClusteringResult(cluster_labels, fit, failAt))

\* create_demo_data.py main: create_demo_clusters on the ids of the demo
\* articles, here the articles stored so far
DemoClustersDone(r) ==
        /\ ArticleIds # {}
        /\ clusters' = r.tables.clusters
        /\ members' = r.tables.members
        /\ last' = Completed("create_demo_clusters", 0, r.raised, FALSE)
        /\ UNCHANGED <<articles, embeddings, inflight, call, txn, ingest, scorer>>

DemoClusters == DemoClustersDone(CreateDemoClusters(Tables, SetToSeq(ArticleIds)))

Next ==
    \/ InsertArticle
    \/ GenerateEmbeddingsForUnprocessed
    \/ RunClustering
    \/ DemoClusters

Spec == Init /\ [][Next]_vars

----------------------------------------------------------------------------
(* SpecConc: the pipeline with a second embedding-store invocation that runs
   concurrently: it reads its batch, other invocations run, then it stores *)

SecondRead ==
    \E batch \in GetArticlesWithoutEmbeddings(EMBED_BATCH_LIMIT) :
        /\ inflight.pc = "idle"
        /\ Len(GenerateEmbeddings(batch)) > 0
        /\ inflight' = [pc |-> "store", ids |-> GenerateEmbeddings(batch)]
        /\ last' = Completed("second_read", 0, FALSE, FALSE)
        /\ UNCHANGED <<articles, embeddings, clusters, members, call, txn, ingest, scorer>>

SecondStoreUpTo(max_rows) ==
        /\ inflight.pc = "store"
        /\ BagCardinality(embeddings) + Len(inflight.ids) <= max_rows
        /\ embeddings' = StoreEmbeddings(embeddings, inflight.ids, {})
        /\ inflight' = Idle
        /\ last' = Completed("second_store", 0, FALSE, FALSE)
        /\ UNCHANGED <<articles, clusters, members, call, txn, ingest, scorer>>

SecondStore == SecondStoreUpTo(MaxEmbeddingRows)

\* the first invocation, its result not recorded
FirstEmbed == EmbedCall(FALSE, MaxEmbeddingRows)

NextConc ==
    \/ InsertArticle
    \/ FirstEmbed
    \/ SecondRead
    \/ SecondStore
    \/ RunClustering
    \/ DemoClusters

SpecConc == Init /\ [][NextConc]_vars

----------------------------------------------------------------------------
(* SpecJob: articles are stored and embedded, by two concurrent invocations
   of the embedding store, and then run_clustering runs once *)

Clustered == last.op = "run_clustering"

JobInsertArticle == ~Clustered /\ InsertArticle
JobDemoClusters == ~Clustered /\ DemoClusters
JobFirstEmbed == ~Clustered /\ EmbedCall(FALSE, MaxJobRows)
JobSecondRead == ~Clustered /\ SecondRead
JobSecondStore == ~Clustered /\ SecondStoreUpTo(MaxJobRows)
JobRunClustering == ~Clustered /\ RunClustering

NextJob ==
    \/ JobInsertArticle
    \/ JobDemoClusters
    \/ JobFirstEmbed
    \/ JobSecondRead
    \/ JobSecondStore
    \/ JobRunClustering

SpecJob == Init /\ [][NextJob]_vars

----------------------------------------------------------------------------
(* SpecModels: the embedding store on a table that also holds rows written
   under another model name *)

\* insert_embedding called for a stored article with another model name
CallInsertEmbedding ==
    \E a \in ArticleIds :
        /\ BagCardinality(embeddings) < MaxEmbeddingRows
        /\ embeddings' = InsertEmbedding(embeddings, a, OTHER_MODEL)
        /\ last' = Completed("insert_embedding", 0, FALSE, FALSE)
        /\ UNCHANGED <<articles, clusters, members, inflight, call, txn, ingest, scorer>>

NextModels ==
    \/ InsertArticle
    \/ CallInsertEmbedding
    \/ GenerateEmbeddingsForUnprocessed

SpecModels == Init /\ [][NextModels]_vars

----------------------------------------------------------------------------
(* SpecPure: cluster_articles and generate_cluster_labels on bounded inputs *)

\* the label arrays of n rows
LabelArrays(n) == [1..n -> ArgClusterIds]

CallClusterArticles ==
    \E n \in 0..MaxClusterRows :
      \E result \in ClusterArticles(n) :
        /\ call' = [op |-> "cluster_articles", n |-> n, result |-> result]
        /\ UNCHANGED <<articles, embeddings, clusters, members, inflight, last, txn, ingest, scorer>>

CallGenerateClusterLabels ==
    \E n \in 0..MaxPureRows :
      \E cluster_labels \in LabelArrays(n) :
      \E fit \in Fits(cluster_labels) :
        /\ call' = [op |-> "generate_cluster_labels", cluster_labels |-> cluster_labels,
                    fit |-> fit, result |-> GenerateClusterLabels(cluster_labels, fit)]
        /\ UNCHANGED <<articles, embeddings, clusters, members, inflight, last, txn, ingest, scorer>>

NextPure == CallClusterArticles \/ CallGenerateClusterLabels

SpecPure == Init /\ [][NextPure]_vars

----------------------------------------------------------------------------
(* SpecText: preprocess_text and generate_embeddings applied to arguments
   drawn in the initial state *)

\* the texts of at most MaxTextLen characters
ArgTexts == UNION {[1..n -> TextChars] : n \in 0..MaxTextLen}

\* the lengths of processed texts around the threshold
ArgLengths == {MIN_TEXT_LEN - 1, MIN_TEXT_LEN, MIN_TEXT_LEN + 1}

\* the article lists a caller of generate_embeddings passes
ArgArticleLists ==
    UNION {[1..n -> [plen : ArgLengths]] : n \in 0..MaxArgArticles}

InitText ==
    /\ articles = <<>>
    /\ embeddings = EmptyBag
    /\ clusters = {}
    /\ members = {}
    /\ inflight = Idle
    /\ last = NoOp
    /\ txn = NoTransactions
    /\ ingest = NoIngest
    /\ scorer = NoScorer
    /\ call \in {[op |-> "arg", fn |-> "preprocess_text", text |-> t] : t \in ArgTexts}
             \cup {[op |-> "arg", fn |-> "generate_embeddings", articles |-> a] :
                      a \in ArgArticleLists}

CallPreprocessText ==
    /\ call.op = "arg"
    /\ call.fn = "preprocess_text"
    /\ call' = [op |-> "preprocess_text", text |-> call.text,
                result |-> PreprocessText(call.text)]
    /\ UNCHANGED <<articles, embeddings, clusters, members, inflight, last, txn, ingest, scorer>>

CallGenerateEmbeddings ==
    /\ call.op = "arg"
    /\ call.fn = "generate_embeddings"
    /\ call' = [op |-> "generate_embeddings", articles |-> call.articles,
                result |-> GenerateEmbeddingsOf(call.articles, 1..Len(call.articles))]
    /\ UNCHANGED <<articles, embeddings, clusters, members, inflight, last, txn, ingest, scorer>>

NextText == CallPreprocessText \/ CallGenerateEmbeddings

SpecText == InitText /\ [][NextText]_vars

----------------------------------------------------------------------------
(* SpecPreview: generate_embeddings applied to two articles with the same
   title and texts about PREVIEW_CHARS characters long *)

\* n copies of the character c
Filler(c, n) == [i \in 1..n |-> c]

\* what follows the filler of a long text
ArgTails == {<<>>, <<"a">>, <<"a", "a">>}

\* texts one character shorter than the preview, or as long, or longer; of
\* characters that are kept or of characters that are removed
ArgLongTexts ==
    {Filler(c, n) \o tail :
        c \in {"a", "@"}, n \in {PREVIEW_CHARS - 1, PREVIEW_CHARS}, tail \in ArgTails}

\* a short title, and one that with ". " reaches the length threshold
ArgTitles == {<<"A">>, Filler("a", MIN_TEXT_LEN - 2)}

InitPreview ==
    /\ articles = <<>>
    /\ embeddings = EmptyBag
    /\ clusters = {}
    /\ members = {}
    /\ inflight = Idle
    /\ last = NoOp
    /\ txn = NoTransactions
    /\ ingest = NoIngest
    /\ scorer = NoScorer
    /\ call \in {[op |-> "arg", fn |-> "generate_embeddings",
                   articles |-> <<[title |-> t, text |-> x], [title |-> t, text |-> y]>>] :
                      t \in ArgTitles, x \in ArgLongTexts, y \in ArgLongTexts}

CallGenerateEmbeddingsFromText ==
    /\ call.op = "arg"
    /\ call.fn = "generate_embeddings"
    /\ call' = [op |-> "generate_embeddings", articles |-> call.articles,
                result |-> GenerateEmbeddingsFromText(call.articles)]
    /\ UNCHANGED <<articles, embeddings, clusters, members, inflight, last, txn, ingest, scorer>>

NextPreview == CallGenerateEmbeddingsFromText

SpecPreview == InitPreview /\ [][NextPreview]_vars

\* the two texts are the same up to character PREVIEW_CHARS
AgreeOnPreview(x, y) ==
    \A i \in 1..PREVIEW_CHARS :
        /\ i <= Len(x) <=> i <= Len(y)
        /\ i <= Len(x) => x[i] = y[i]

\* C22: two articles with the same title whose texts agree on their first
\* 1000 characters get the same normalized string and the same
\* include/exclude decision from generate_embeddings.
C22_DependsOnPreviewOnly ==
    (/\ call.op = "generate_embeddings"
     /\ call.articles[1].title = call.articles[2].title
     /\ AgreeOnPreview(call.articles[1].text, call.articles[2].text))
    => /\ call.result.processed[1] = call.result.processed[2]
       /\ 1 \in Range(call.result.article_ids) <=> 2 \in Range(call.result.article_ids)

\* two texts that differ after character 1000 only, both excluded
C22_Witness ==
    /\ call.op = "generate_embeddings"
    /\ AgreeOnPreview(call.articles[1].text, call.articles[2].text)
    /\ call.articles[1].text # call.articles[2].text
    /\ Len(call.articles[1].text) > PREVIEW_CHARS
    /\ call.result.article_ids = <<>>
    /\ Len(call.result.processed[1]) = MIN_TEXT_LEN

----------------------------------------------------------------------------
(* SpecDocs: run_clustering on articles with title and text; the documents
   generate_cluster_labels builds are recorded *)

\* cluster.py:141, text[:500]
LABEL_PREVIEW_CHARS == 500

\* dict.get(key, default)
Get(dict, key, default) == IF key \in DOMAIN dict THEN dict[key] ELSE default

\* the dict get_all_embeddings builds for an embedding row of article a, of
\* the columns its SELECT lists: e.article_id, e.vector, a.title, a.outlet,
\* a.published_at (the model keeps the id and the title)
EmbeddingItem(a) == [article_id |-> a, title |-> articles[a].title]

\* lines 139-142: preprocess_text(f"{title} {text[:500]}") of an article dict
LabelDocument(article) ==
    PreprocessText(Get(article, "title", <<>>) \o <<" ">>
                   \o SubSeq(Get(article, "text", <<>>), 1,
                             Min({Len(Get(article, "text", <<>>)), LABEL_PREVIEW_CHARS})))

\* the documents of a run: one per item of articles_data
LabelDocuments ==
    [i \in 1..Len(GetAllEmbeddings) |->
        LabelDocument(EmbeddingItem(GetAllEmbeddings[i].article_id))]

ArgDocTitles == {<<"A">>, <<"A", " ", "a">>}
ArgDocTexts == {<<>>, <<"a", "_", "a">>}

\* MIN_CLUSTER_SIZE stored articles, each with no or with two embedding rows
InitDocs ==
    /\ articles \in [1..MIN_CLUSTER_SIZE ->
                        [plen : {MIN_TEXT_LEN + 1}, title : ArgDocTitles, text : ArgDocTexts]]
    /\ embeddings \in {SetToBag({[article_id |-> a, model_name |-> EMBEDDING_MODEL] : a \in S})
                          (+) SetToBag({[article_id |-> a, model_name |-> EMBEDDING_MODEL] : a \in S}) :
                            S \in SUBSET (1..MIN_CLUSTER_SIZE)}
    /\ clusters = {}
    /\ members = {}
    /\ inflight = Idle
    /\ last = NoOp
    /\ call = NoCall
    /\ txn = NoTransactions
    /\ ingest = NoIngest
    /\ scorer = NoScorer

\* the state after a run that did r and built the documents docs
RunClusteringDocsDone(failAt, r, cluster_labels, docs) ==
    /\ clusters' = r.tables.clusters
    /\ members' = r.tables.members
    /\ last' = [op |-> "run_clustering", ret |-> r.ret, raised |-> r.raised,
                failed |-> failAt # 0, replaced |-> FALSE]
    /\ call' = [op |-> "label_documents", cluster_labels |-> cluster_labels,
                article_ids |-> [i \in 1..Len(GetAllEmbeddings) |->
                                    GetAllEmbeddings[i].article_id],
                docs |-> docs]
    /\ UNCHANGED <<articles, embeddings, inflight, txn, ingest, scorer>>

RunClusteringDocs ==
    \/ /\ ReturnsEarly(Len(GetAllEmbeddings))
       /\ last' = [op |-> "run_clustering", ret |-> 0, raised |-> FALSE,
                   failed |-> FALSE, replaced |-> FALSE]
       /\ UNCHANGED <<articles, embeddings, clusters, members, inflight, call, txn, ingest, scorer>>
    \/ /\ ~ReturnsEarly(Len(GetAllEmbeddings))
       /\ \E cluster_labels \in ClusterArticles(Len(GetAllEmbeddings)) :
          \E fit \in Fits(cluster_labels) :
          \E failAt \in {0, 1} :
            RunClusteringDocsDone(failAt, RunClusteringResult(cluster_labels, fit, failAt),
                                  cluster_labels, LabelDocuments)

\* one run on each store
DocsRunClustering == ~Clustered /\ RunClusteringDocs

NextDocs == DocsRunClustering

SpecDocs == InitDocs /\ [][NextDocs]_vars

\* C23 (as claimed): the document built for each member article of a cluster
\* is the normalized concatenation of the article's title and the first 500
\* characters of the article's text.
C23_DocumentHasBodyText ==
    call.op = "label_documents" =>
        \A i \in 1..Len(call.docs) :
            call.cluster_labels[i] >= 0 =>
                call.docs[i] =
                    PreprocessText(articles[call.article_ids[i]].title \o <<" ">>
                        \o SubSeq(articles[call.article_ids[i]].text, 1,
                                  Min({Len(articles[call.article_ids[i]].text), 500})))

----------------------------------------------------------------------------
(* SpecLabel: the labelling of one cluster (lines 149-169) on the outcomes of
   a vectorizer with up to six terms *)

\* feature names: unigrams, one with an underscore, and an n-gram
ArgTerms ==
    <<TermAi, TermAiLaw, TermLaw, <<"i", "l", "l">>, <<"w", "a", "l", "l">>,
      <<"l", "a", "w", " ", "a", "i">>>>

ArgOutcomes ==
    {FitRaises} \cup
    UNION {{[raised |-> FALSE, features |-> Prefix(ArgTerms, n), sums |-> sums] :
                sums \in [1..n -> 0..MaxWeight]} : n \in 1..Len(ArgTerms)}

InitLabel ==
    /\ articles = <<>>
    /\ embeddings = EmptyBag
    /\ clusters = {}
    /\ members = {}
    /\ inflight = Idle
    /\ last = NoOp
    /\ txn = NoTransactions
    /\ ingest = NoIngest
    /\ scorer = NoScorer
    /\ call \in {[op |-> "arg", fn |-> "label", cluster_id |-> c, outcome |-> o] :
                   c \in ArgClusterIds \ {NOISE},
                   o \in ArgOutcomes}

CallLabelStep ==
    /\ call.op = "arg"
    /\ call.fn = "label"
    /\ call' = [op |-> "label", cluster_id |-> call.cluster_id, outcome |-> call.outcome,
                result |-> LabelStep(call.cluster_id, call.outcome)]
    /\ UNCHANGED <<articles, embeddings, clusters, members, inflight, last, txn, ingest, scorer>>

NextLabel == CallLabelStep

SpecLabel == InitLabel /\ [][NextLabel]_vars

\* the term model fitted and gave a term a summed weight above zero
FittedWithTerms ==
    /\ call.op = "label"
    /\ ~call.outcome.raised
    /\ \E i \in DOMAIN call.outcome.sums : call.outcome.sums[i] > 0

\* the selections of at most three terms the claim allows: the positive
\* terms of highest summed weight, in descending order of weight
ClaimedSelections(outcome) ==
    LET positive == {i \in DOMAIN outcome.sums : outcome.sums[i] > 0}
        k == IF Cardinality(positive) < 3 THEN Cardinality(positive) ELSE 3
    IN {idx \in [1..k -> positive] :
          /\ \A a, b \in 1..k : a < b =>
                /\ idx[a] # idx[b]
                /\ outcome.sums[idx[a]] >= outcome.sums[idx[b]]
          /\ \A j \in positive \ Range(idx) :
                \A a \in 1..k : outcome.sums[j] <= outcome.sums[idx[a]]}

\* the feature names of a selection
SelectedTerms(outcome, idx) == [a \in 1..Len(idx) |-> outcome.features[idx[a]]]

----------------------------------------------------------------------------
(* SpecLive: generate_embeddings_for_unprocessed invoked again and again on a
   fixed articles table, without failures *)

NoInjection == [erring |-> {}, failing |-> {}]

InitLive ==
    /\ articles \in UNION {[1..n -> [plen : ProcessedLengths]] : n \in 0..MaxLiveArticles}
    /\ embeddings = EmptyBag
    /\ clusters = {}
    /\ members = {}
    /\ inflight = Idle
    /\ last = NoOp
    /\ call = [op |-> "invocation", odd |-> FALSE]
    /\ txn = NoTransactions
    /\ ingest = NoIngest
    /\ scorer = NoScorer

\* the state after an invocation that did r
EmbedAgainDone(r) ==
    /\ embeddings' = r.embeddings
    /\ last' = Completed("embed", r.ret, r.raised, FALSE)
    /\ call' = [op |-> "invocation", odd |-> ~call.odd]
    /\ UNCHANGED <<articles, clusters, members, inflight, txn, ingest, scorer>>

\* one more invocation (main, or the scheduler that runs it)
EmbedAgain ==
    \E batch \in GetArticlesWithoutEmbeddings(EMBED_BATCH_LIMIT) :
        EmbedAgainDone(EmbedUnprocessed(batch, NoInjection))

NextLive == EmbedAgain

\* the invocation is repeated for ever
SpecLive == InitLive /\ [][NextLive]_vars /\ WF_vars(EmbedAgain)

\* C26 (as claimed): with the embedding store invoked again and again, no
\* new article and no failure, every article whose normalized string passes
\* the length threshold eventually has an embedding row.
C26_LongArticlesEventuallyEmbedded ==
    <>(\A a \in ArticleIds : articles[a].plen > MIN_TEXT_LEN => EmbeddingRows(a) >= 1)

----------------------------------------------------------------------------
(* SpecAfter: clustering runs and embedding-store invocations on a store
   that holds the demo cluster and several embedding rows per article *)

\* MIN_CLUSTER_SIZE articles with a long text and one that is too short to
\* be embedded; up to two embedding rows for each of the long ones; the
\* cluster tables empty or as create_demo_clusters leaves them
InitAfter ==
    /\ articles = [a \in 1..(MIN_CLUSTER_SIZE + 1) |->
                      [plen |-> IF a <= MIN_CLUSTER_SIZE THEN MIN_TEXT_LEN + 1
                                ELSE MIN_TEXT_LEN]]
    /\ embeddings \in
          {SetToBag({[article_id |-> a, model_name |-> EMBEDDING_MODEL] :
                        a \in {x \in 1..MIN_CLUSTER_SIZE : rows[x] >= 1}})
           (+) SetToBag({[article_id |-> a, model_name |-> EMBEDDING_MODEL] :
                        a \in {x \in 1..MIN_CLUSTER_SIZE : rows[x] >= 2}}) :
              rows \in [1..MIN_CLUSTER_SIZE -> 0..2]}
    /\ \E t \in {NoTables,
                  CreateDemoClusters(NoTables, SetToSeq(1..(MIN_CLUSTER_SIZE + 1))).tables} :
          clusters = t.clusters /\ members = t.members
    /\ inflight = Idle
    /\ last = NoOp
    /\ call = [op |-> "runs", n |-> 0]
    /\ txn = NoTransactions
    /\ ingest = NoIngest
    /\ scorer = NoScorer

\* the state after a counted run that did r
CountedRunDone(failAt, r) ==
    /\ clusters' = r.tables.clusters
    /\ members' = r.tables.members
    /\ last' = [op |-> "run_clustering", ret |-> r.ret, raised |-> r.raised,
                failed |-> failAt # 0, replaced |-> FALSE]
    /\ call' = [op |-> "runs", n |-> call.n + 1]
    /\ UNCHANGED <<articles, embeddings, inflight, txn, ingest, scorer>>

\* run_clustering(), at most MaxRuns times
CountedRunClustering ==
    /\ call.n < MaxRuns
    /\ \/ /\ ReturnsEarly(Len(GetAllEmbeddings))
          /\ last' = [op |-> "run_clustering", ret |-> 0, raised |-> FALSE,
                      failed |-> FALSE, replaced |-> FALSE]
          /\ call' = [op |-> "runs", n |-> call.n + 1]
          /\ UNCHANGED <<articles, embeddings, clusters, members, inflight, txn, ingest, scorer>>
       \/ /\ ~ReturnsEarly(Len(GetAllEmbeddings))
          /\ \E cluster_labels \in ClusterArticles(Len(GetAllEmbeddings)) :
             \E fit \in Fits(cluster_labels) :
             \E failAt \in {0, 1} :
               CountedRunDone(failAt, RunClusteringResult(cluster_labels, fit, failAt))

\* generate_embeddings_for_unprocessed(), before or after a run
LaterEmbed == EmbedCall(FALSE, MaxJobRows)

NextAfter == CountedRunClustering \/ LaterEmbed

SpecAfter == InitAfter /\ [][NextAfter]_vars

\* every membership row names an existing article with an embedding row
MembersEmbedded ==
    \A m \in members : m.article_id \in ArticleIds /\ AllRows(m.article_id) >= 1

\* C28: a run_clustering that replaces the cluster tables leaves only
\* memberships of existing articles that have an embedding row, and later
\* embedding-store and clustering invocations keep it so.
C28_MembersAreEmbeddedArticles ==
    [][/\ (/\ last'.op = "run_clustering"
           /\ ~last'.raised
           /\ ~ReturnsEarly(Len(GetAllEmbeddings))) => MembersEmbedded'
       /\ (MembersEmbedded /\ last'.op \in {"run_clustering", "embed"})
              => MembersEmbedded']_vars

\* an embedding-store invocation after a run that replaced the demo cluster
\* by clusters with members, one article still without an embedding row
C28_Witness ==
    /\ last.op = "embed"
    /\ call.n >= 1
    /\ members # {}
    /\ \A m \in members : m.cluster_id # DEMO_CLUSTER_ID
    /\ \E a \in ArticleIds : AllRows(a) = 0
    /\ MembersEmbedded

----------------------------------------------------------------------------
(* SpecStore: direct calls of the cluster store *)

ArgArticleIds == 1..MaxArgArticles

\* The label a direct caller passes for a cluster: two label texts per cluster.
ArgLabel(cluster_id, v) ==
    IF v = 1 THEN FallbackLabel(cluster_id) ELSE <<"A", "i">>

LabelVariants == {1, 2}

\* dicts: functions from a finite set of keys
ArgAssignments(keys) == [keys -> ArgClusterIds]
ArgClusterLabels(keys) == {[c \in keys |-> ArgLabel(c, v)] : v \in LabelVariants}

\* no failure, or a failure of the last insert
FailPoints(n) == {0, n}

\* the state after a call that did r
UpdateClustersDone(a, l, failAt, r) ==
        /\ clusters' = r.tables.clusters
        /\ members' = r.tables.members
        /\ call' = IF failAt # 0
                   THEN [op |-> "update_clusters", injected |-> TRUE,
                         raised |-> r.raised, partial |-> failAt > 1]
                   ELSE [op |-> "update_clusters", injected |-> FALSE,
                         raised |-> r.raised, had_rows |-> Tables # NoTables,
                         cluster_assignments |-> a, cluster_labels |-> l]
        /\ UNCHANGED <<articles, embeddings, inflight, last, txn, ingest, scorer>>

CallUpdateClusters ==
    \E article_ids \in SUBSET ArgArticleIds, cluster_ids \in SUBSET ArgClusterIds :
      \E a \in ArgAssignments(article_ids), l \in ArgClusterLabels(cluster_ids) :
      \E failAt \in FailPoints(Len(UpdateInserts(a, l))) :
        UpdateClustersDone(a, l, failAt, UpdateClusters(Tables, a, l, failAt))

NextStore == CallUpdateClusters

SpecStore == Init /\ [][NextStore]_vars

----------------------------------------------------------------------------
(* SpecTxn: two update_clusters calls, each on its own connection, statement
   by statement *)

AutocommitOn == TRUE

\* sqlite3.connect() is called without isolation_level=None, so the
\* connection is not in autocommit mode: the first DELETE opens a transaction
\* implicitly and it stays open until the with block commits or rolls back.
Autocommit == FALSE

\* the statements of update_clusters in order: the two DELETEs, the INSERTs
UpdateStatements(cluster_assignments, cluster_labels) ==
    <<[table |-> "members", delete |-> TRUE], [table |-> "clusters", delete |-> TRUE]>>
    \o [i \in 1..Len(UpdateInserts(cluster_assignments, cluster_labels)) |->
          [table |-> UpdateInserts(cluster_assignments, cluster_labels)[i].table,
           delete |-> FALSE,
           insert |-> UpdateInserts(cluster_assignments, cluster_labels)[i]]]

\* one statement on the tables t
ExecStatement(t, s) ==
    IF s.delete
    THEN [ok |-> TRUE,
          tables |-> IF s.table = "members"
                     THEN [clusters |-> t.clusters, members |-> {m \in t.members : FALSE}]
                     ELSE [clusters |-> {c \in t.clusters : FALSE}, members |-> t.members]]
    ELSE ExecInsert(t, s.insert)

\* the arguments run_clustering passes: a cluster id or -1 for each article,
\* a label for each cluster id in use
TxnAssignments == [ArgArticleIds -> ArgClusterIds]
TxnLabels(a) == ArgClusterLabels({c \in Range(a) : c >= 0})

\* SQLite admits one writer: a DELETE or INSERT needs the database's RESERVED
\* lock, which the connection with the open transaction holds until it
\* commits or rolls back.
WriteLocked(c) == \E d \in Conns \ {c} : txn[d].open

\* update_clusters is called on connection c
TxnCall(c) ==
    \E a \in TxnAssignments :
      \E l \in TxnLabels(a) :
        /\ txn[c].pc = "idle"
        /\ txn' = [txn EXCEPT ![c] =
                     [pc |-> "run", open |-> FALSE, stmts |-> UpdateStatements(a, l),
                      i |-> 1, work |-> NoTables,
                      overlapped |-> \E d \in Conns \ {c} : txn[d].pc = "run",
                      cluster_assignments |-> a, cluster_labels |-> l]]
        /\ UNCHANGED <<articles, embeddings, clusters, members, inflight, last, call, ingest, scorer>>

\* the state after connection c ran its next statement with result r on the
\* tables it sees
TxnStatementDone(c, r) ==
    IF ~r.ok
    THEN \* the exception leaves the with block: rollback
         /\ txn' = [txn EXCEPT ![c].pc = "raised", ![c].open = FALSE]
         /\ UNCHANGED <<clusters, members>>
    ELSE IF Autocommit
    THEN /\ txn' = [txn EXCEPT ![c].i = @ + 1, ![c].open = FALSE]
         /\ clusters' = r.tables.clusters
         /\ members' = r.tables.members
    ELSE /\ txn' = [txn EXCEPT ![c].i = @ + 1, ![c].open = TRUE, ![c].work = r.tables]
         /\ UNCHANGED <<clusters, members>>

\* conn.execute(...): the next statement of connection c. A statement sees
\* the committed tables with the changes of its own open transaction.
TxnStatement(c) ==
    /\ txn[c].pc = "run"
    /\ txn[c].i <= Len(txn[c].stmts)
    /\ ~WriteLocked(c)
    /\ TxnStatementDone(c, ExecStatement(IF txn[c].open THEN txn[c].work ELSE Tables,
                                         txn[c].stmts[txn[c].i]))
    /\ UNCHANGED <<articles, embeddings, inflight, last, call, ingest, scorer>>

\* the with block ends normally: commit
TxnCommit(c) ==
    /\ txn[c].pc = "run"
    /\ txn[c].i > Len(txn[c].stmts)
    /\ txn' = [txn EXCEPT ![c].pc = "done", ![c].open = FALSE]
    /\ clusters' = IF txn[c].open THEN txn[c].work.clusters ELSE clusters
    /\ members' = IF txn[c].open THEN txn[c].work.members ELSE members
    /\ UNCHANGED <<articles, embeddings, inflight, last, call, ingest, scorer>>

\* the busy timeout of connection c ends while the other connection still
\* holds the lock: the statement raises "database is locked", the exception
\* leaves the with block and the call has changed nothing
TxnBusy(c) ==
    /\ txn[c].pc = "run"
    /\ txn[c].i <= Len(txn[c].stmts)
    /\ WriteLocked(c)
    /\ txn' = [txn EXCEPT ![c].pc = "raised", ![c].open = FALSE]
    /\ UNCHANGED <<articles, embeddings, clusters, members, inflight, last, call, ingest, scorer>>

NextTxn ==
    \E c \in Conns : TxnCall(c) \/ TxnStatement(c) \/ TxnCommit(c) \/ TxnBusy(c)

SpecTxn == Init /\ [][NextTxn]_vars

\* what one complete update_clusters call leaves in the tables
CompleteResult(c) ==
    UpdateClusters(NoTables, txn[c].cluster_assignments, txn[c].cluster_labels, 0).tables

\* C18 (amended): two concurrent update_clusters calls are serialized by the
\* database's write lock; the committed clusters and cluster_members tables
\* always hold the complete result of exactly one committed call (or are
\* still as before the calls), never a mixture of the rows of both.
C18_CommittedIsOneCompleteResult ==
    \/ Tables = NoTables
    \/ \E c \in Conns : txn[c].pc = "done" /\ Tables = CompleteResult(c)

\* both calls overlapped, both committed different non-empty results
C18_Witness ==
    /\ \A c \in Conns : txn[c].pc = "done"
    /\ \E c \in Conns : txn[c].overlapped
    /\ CompleteResult("first") # CompleteResult("second")
    /\ CompleteResult("first").members # {}
    /\ CompleteResult("second").members # {}
    /\ Tables # NoTables

\* C18 (as claimed): the delete-then-insert of one call is not isolated from
\* a second concurrent call: while one connection is between its statements,
\* the other connection's next statement can run.
C18_NotIsolated ==
    \A c \in Conns :
        (/\ txn[c].pc = "run"
         /\ txn[c].i <= Len(txn[c].stmts)
         /\ \E d \in Conns \ {c} : txn[d].pc = "run" /\ txn[d].i > 1)
        => ENABLED TxnStatement(c)

----------------------------------------------------------------------------
(* Claims about the cluster store: direct calls, SpecStore *)

UpdateSucceeded == call.op = "update_clusters" /\ ~call.raised

\* C4 (as claimed): after every successful update_clusters call, whatever its
\* arguments, every cluster_id in cluster_members is the cluster_id of a
\* clusters row inserted by that call.
C4_MembersReferenceClusters ==
    UpdateSucceeded =>
        \A m \in members :
            /\ m.cluster_id \in DOMAIN call.cluster_labels
            /\ [cluster_id |-> m.cluster_id,
                label |-> call.cluster_labels[m.cluster_id]] \in clusters

\* C6: when an insert of update_clusters fails, the call raises and the
\* committed clusters and cluster_members tables are those from before the
\* call.
C6_FailedUpdateLeavesTables ==
    [][(call'.op = "update_clusters" /\ call'.injected)
         => (call'.raised /\ clusters' = clusters /\ members' = members)]_vars

\* C6 witness: an update failed after some of its inserts had run, on tables
\* that held cluster and membership rows.
C6_Witness ==
    /\ call.op = "update_clusters" /\ call.injected /\ call.partial
    /\ clusters # {} /\ members # {}

\* C7: after a successful update_clusters(cluster_assignments,
\* cluster_labels) the clusters table is exactly one row per entry of
\* cluster_labels and cluster_members exactly one row per entry of
\* cluster_assignments with a cluster id >= 0; nothing older remains.
C7_FullReplace ==
    UpdateSucceeded =>
        /\ clusters = {[cluster_id |-> c, label |-> call.cluster_labels[c]] :
                          c \in DOMAIN call.cluster_labels}
        /\ members = {[cluster_id |-> call.cluster_assignments[a], article_id |-> a] :
                          a \in {x \in DOMAIN call.cluster_assignments :
                                   call.cluster_assignments[x] >= 0}}

\* C7 witness: a successful update over tables that held rows, with a noise
\* entry and a non-noise entry in cluster_assignments.
C7_Witness ==
    /\ UpdateSucceeded /\ call.had_rows
    /\ \E a \in DOMAIN call.cluster_assignments : call.cluster_assignments[a] = NOISE
    /\ members # {} /\ clusters # {}

\* C8 (as claimed): an article mapped to the noise label -1 has no
\* cluster_members row after the call, and update_clusters persists no
\* clusters or cluster_members row with a negative cluster_id.
C8_NoNoiseRows ==
    UpdateSucceeded =>
        /\ \A a \in DOMAIN call.cluster_assignments :
              call.cluster_assignments[a] = NOISE =>
                  ~ \E m \in members : m.article_id = a
        /\ \A m \in members : m.cluster_id >= 0
        /\ \A c \in clusters : c.cluster_id >= 0

----------------------------------------------------------------------------
(* Claims about cluster_articles and generate_cluster_labels: SpecPure *)

\* C2: for a matrix of n < MIN_CLUSTER_SIZE rows cluster_articles returns
\* exactly n labels, each the noise label -1.
C2_BelowMinimumAllNoise ==
    (call.op = "cluster_articles" /\ call.n < MIN_CLUSTER_SIZE) =>
        /\ Len(call.result) = call.n
        /\ \A i \in 1..Len(call.result) : call.result[i] = NOISE

\* C2 witness: a call on MIN_CLUSTER_SIZE - 1 rows that returned a label
\* per row.
C2_Witness ==
    /\ call.op = "cluster_articles"
    /\ call.n = MIN_CLUSTER_SIZE - 1
    /\ Len(call.result) = MIN_CLUSTER_SIZE - 1

LabelsCalled == call.op = "generate_cluster_labels"

\* no term of the outcome has a summed weight above zero
NoPositiveTerm(outcome) ==
    ~outcome.raised /\ \A i \in DOMAIN outcome.sums : outcome.sums[i] <= 0

\* C9: generate_cluster_labels never raises and never yields an empty
\* label; a cluster whose fit raises, or none of whose terms has a summed
\* weight above zero, gets the label "Cluster <cluster_id>" of its own id.
C9_FallbackLabelNeverRaises ==
    LabelsCalled =>
        /\ ~call.result.raised
        /\ \A c \in DOMAIN call.result.dict : Len(call.result.dict[c]) > 0
        /\ \A c \in DOMAIN call.fit :
              (call.fit[c].raised \/ NoPositiveTerm(call.fit[c])) =>
                  /\ c \in DOMAIN call.result.dict
                  /\ call.result.dict[c] = FallbackLabel(c)

\* C9 witness: one call in which the fit raised for one cluster and gave
\* only zero weights for another.
C9_Witness ==
    /\ LabelsCalled
    /\ \E c \in DOMAIN call.fit : call.fit[c].raised
    /\ \E c \in DOMAIN call.fit : NoPositiveTerm(call.fit[c])

\* C10: the keys of the returned dict are exactly the distinct non-negative
\* labels of cluster_labels, and had the fit of any one cluster k raised,
\* every other cluster would be present with the same label.
C10_FailuresPerCluster ==
    LabelsCalled =>
        /\ DOMAIN call.result.dict = {c \in Range(call.cluster_labels) : c >= 0}
        /\ \A k \in DOMAIN call.fit :
              \A other \in {GenerateClusterLabels(call.cluster_labels,
                                [call.fit EXCEPT ![k] = FitRaises])} :
              \A c \in DOMAIN call.fit \ {k} :
                  /\ c \in DOMAIN other.dict
                  /\ c \in DOMAIN call.result.dict
                  /\ other.dict[c] = call.result.dict[c]

\* C10 witness: noise rows and two clusters, the first labelled one failed
\* and the later one got a label from its terms.
C10_Witness ==
    /\ LabelsCalled
    /\ NOISE \in Range(call.cluster_labels)
    /\ \E k, c \in DOMAIN call.fit :
          /\ k # c
          /\ call.fit[k].raised
          /\ ~call.fit[c].raised
          /\ c \in DOMAIN call.result.dict
          /\ call.result.dict[c] # FallbackLabel(c)

\* C13 (as claimed): on the 5 rows of 5 articles on one topic, with minimum
\* cluster size 3 and minimum samples 2, the clusterer returns exactly one
\* non-noise cluster and it holds all 5 rows.
C13_FiveArticlesOneCluster ==
    (call.op = "cluster_articles" /\ call.n = 5) =>
        /\ Cardinality(ClusterIds(call.result)) = 1
        /\ \A i \in 1..Len(call.result) : call.result[i] >= 0

----------------------------------------------------------------------------
(* Claims about preprocess_text and generate_embeddings: SpecText *)

\* C19 (as claimed): generate_embeddings returns the id of an article
\* exactly when its processed text has 50 or more characters.
C19_ThresholdIsFifty ==
    call.op = "generate_embeddings" =>
        \A a \in 1..Len(call.articles) :
            (a \in Range(call.result)) <=> (call.articles[a].plen >= MIN_TEXT_LEN)

\* C20 (as claimed): the text preprocess_text returns has no two
\* whitespace characters in a row.
C20_NoDoubleWhitespace ==
    call.op = "preprocess_text" =>
        \A i \in 1..(Len(call.result) - 1) :
            ~(IsSpace(call.result[i]) /\ IsSpace(call.result[i + 1]))

\* the characters the claim allows in a normalized string: lower-case
\* alphanumerics, the space and the five punctuation marks
ClaimedChars == {"a", " ", ".", ",", "!", "?", "-"}

\* C21 (as claimed): the text preprocess_text returns consists only of
\* whitelisted characters (the underscore is not one), has no upper-case
\* letter and neither '<' nor '>'.
C21_OnlyWhitelistedChars ==
    call.op = "preprocess_text" =>
        \A i \in 1..Len(call.result) : call.result[i] \in ClaimedChars

----------------------------------------------------------------------------
(* Claims about the pipeline: Spec and SpecConc *)

ClusteringCompleted == last.op = "run_clustering" /\ ~last.raised

\* C1 (as claimed): after run_clustering completes on fewer embedded rows
\* than MIN_CLUSTER_SIZE, zero rows included, the clusters table and the
\* cluster_members table are empty, whatever they held before.
C1_BelowMinimumEmptiesTables ==
    (ClusteringCompleted /\ Len(GetAllEmbeddings) < MIN_CLUSTER_SIZE) =>
        (clusters = {} /\ members = {})

\* C14: a run_clustering call on fewer than MIN_CLUSTER_SIZE embedding rows
\* returns 0, does not raise, and leaves the clusters, cluster_members and
\* embeddings tables as they were.
C14_BelowMinimumIsNoOp ==
    [][(last'.op = "run_clustering" /\ Len(GetAllEmbeddings) < MIN_CLUSTER_SIZE)
         => /\ last'.ret = 0
            /\ ~last'.raised
            /\ clusters' = clusters
            /\ members' = members
            /\ embeddings' = embeddings]_vars

\* C14 witness: a run on one or two embedding rows returned 0 and the
\* cluster rows stored before it are still there.
C14_Witness ==
    /\ ClusteringCompleted
    /\ last.ret = 0
    /\ Len(GetAllEmbeddings) > 0
    /\ Len(GetAllEmbeddings) < MIN_CLUSTER_SIZE
    /\ clusters # {}
    /\ members # {}

\* C11 (as claimed): when embedding or storing fails for an article of the
\* batch, the invocation does not abort, every other article of the batch
\* whose text is long enough has its embedding row, and the failed article
\* has none and is still among the articles without an embedding.
C11_OnlyFailedArticleSkipped ==
    (last.op = "embed" /\ last.failed) =>
        /\ ~last.raised
        /\ \A a \in last.batch \ (last.erring \cup last.failing) :
              articles[a].plen > MIN_TEXT_LEN => EmbeddingRows(a) = 1
        /\ \A a \in last.erring \cup last.failing :
              EmbeddingRows(a) = 0 /\ a \in Unembedded

\* C25 (as claimed): the number generate_embeddings_for_unprocessed returns
\* is the number of embedding rows the invocation persisted, also when
\* storing some of the embeddings fails.
C25_ReturnsRowsPersisted ==
    (last.op = "embed" /\ ~last.raised) => last.ret = last.inserted

\* the articles without an embedding row under the active model name
NoActiveRow == {a \in ArticleIds : EmbeddingRows(a) = 0}

\* C16 (as claimed): an invocation of the embedding store without a failure,
\* on a store where the articles without a row under the active model name
\* fit one batch, gives each of them whose text is long enough a row under
\* the active model, also when it has rows under another model name.
C16_SelectsByActiveModel ==
    [][(last'.op = "embed" /\ ~last'.failed
            /\ Cardinality(NoActiveRow) <= EMBED_BATCH_LIMIT)
         => \A a \in NoActiveRow :
                articles[a].plen > MIN_TEXT_LEN =>
                    CopiesIn([article_id |-> a, model_name |-> EMBEDDING_MODEL],
                             embeddings') = 1]_vars

\* C15: no step deletes or changes an embedding row; run_clustering, and the
\* update_clusters call in it, leaves the embeddings and articles tables
\* unchanged; the embedding store leaves clusters and cluster_members
\* unchanged.
C15_EmbeddingsAppendOnly ==
    [][/\ \A e \in BagToSet(embeddings) :
             CopiesIn(e, embeddings') >= CopiesIn(e, embeddings)
       /\ last'.op = "run_clustering" =>
             (embeddings' = embeddings /\ articles' = articles)
       /\ last'.op \in {"embed", "second_read", "second_store"} =>
             (clusters' = clusters /\ members' = members)]_vars

\* C15 witness: the embedding store added a row to a table that held rows,
\* next to cluster rows.
C15_Witness ==
    /\ last.op \in {"embed", "second_store"}
    /\ BagCardinality(embeddings) >= 2
    /\ clusters # {}
    /\ members # {}

\* C17: the store of a second invocation, which read its batch before the
\* first invocation stored, adds a row for every article of its batch: no
\* insert is rejected because the article has a row already.
C17_SecondInsertNotRejected ==
    [][(inflight.pc = "store" /\ inflight'.pc = "idle")
         => \A i \in 1..Len(inflight.ids) :
              CopiesIn([article_id |-> inflight.ids[i], model_name |-> EMBEDDING_MODEL],
                       embeddings')
              = CopiesIn([article_id |-> inflight.ids[i], model_name |-> EMBEDDING_MODEL],
                         embeddings) + 1]_vars

\* C17 witness: after the second invocation stored, an article has two
\* embedding rows.
C17_Witness ==
    /\ last.op = "second_store"
    /\ \E a \in ArticleIds : EmbeddingRows(a) = 2

\* C3 (as claimed): when generate_embeddings_for_unprocessed has run twice
\* in sequence without a failure and with nothing else in between, every
\* embedded article has exactly one embedding row and the second call
\* returned 0 and inserted no row, for any number of articles.
C3_SecondEmbedAddsNothing ==
    (last.op = "embed" /\ last.after_embed /\ ~last.failed) =>
        /\ \A a \in Embedded(embeddings) : EmbeddingRows(a) = 1
        /\ last.ret = 0
        /\ last.inserted = 0

\* C27 (as claimed): every cluster persisted by run_clustering has at least
\* MIN_CLUSTER_SIZE distinct member articles in cluster_members, also when
\* the embeddings table holds several rows for the same article.
C27_ClustersHaveMinimumMembers ==
    (ClusteringCompleted /\ last.ret > 0) =>
        \A c \in clusters :
            Cardinality({m.article_id : m \in {x \in members : x.cluster_id = c.cluster_id}})
                >= MIN_CLUSTER_SIZE

\* C5: after a completed run_clustering no article id occurs in two
\* cluster_members rows, also when an article has several embedding rows.
C5_OneClusterPerArticle ==
    ClusteringCompleted =>
        \A m1, m2 \in members : m1.article_id = m2.article_id => m1 = m2

\* C5 witness: a completed run that stored a membership row for an article
\* with two embedding rows, over tables that held rows of another cluster id
\* before.
C5_Witness ==
    /\ ClusteringCompleted
    /\ last.replaced
    /\ \E m \in members : EmbeddingRows(m.article_id) >= 2

-----------------------------------------------------------------------------
(* store_articles of the news ingester (SpecIngest)                          *)
(*                                                                           *)
(* Each ingester walks its batch; for one article it first asks              *)
(* article_exists on one connection and then runs insert_article on          *)
(* another, so the steps of two ingesters interleave between the two.        *)

\* article['url'] of an article of the batch that has no url key
NoUrl == "missing"

ArgUrls == {"u1", "u2"}

\* the articles a batch is made of: storable ones, one whose title or cleaned
\* text is too poor to store, and one without a url
ArgIncoming ==
    {[url |-> u, storable |-> TRUE] : u \in ArgUrls}
      \cup {[url |-> "u1", storable |-> FALSE], [url |-> NoUrl, storable |-> TRUE]}

\* the batches of one or two articles
ArgBatches == {<<x>> : x \in ArgIncoming} \cup {<<x, y>> : x, y \in ArgIncoming}

\* SELECT 1 FROM articles WHERE url = ?
ArticleExists(url) == \E i \in 1..Len(articles) : articles[i].url = url

\* the mutant of InsertArticleRow: the url column is not UNIQUE
InsertArticleRowNotUnique(rows, row) == [ok |-> TRUE, rows |-> Append(rows, row)]

\* INSERT INTO articles: the url column is UNIQUE, a second row with the url
\* raises sqlite3.IntegrityError
InsertArticleRow(rows, row) ==
    IF \E i \in 1..Len(rows) : rows[i].url = row.url
    THEN [ok |-> FALSE, rows |-> rows]
    ELSE [ok |-> TRUE, rows |-> Append(rows, row)]

\* the rows of the articles table that ingester g stored
OwnRows(g) == Cardinality({i \in 1..Len(articles) : articles[i].outlet = g})

\* store_articles(articles) is called on ingester g
StoreArticlesCall(g) ==
    \E batch \in ArgBatches :
        /\ ingest[g].pc = "idle"
        /\ ingest' = [ingest EXCEPT ![g] =
                        [pc |-> "check", batch |-> batch, stored_count |-> 0,
                         before |-> OwnRows(g), skipped |-> FALSE,
                         caught |-> FALSE, returned |-> 0]]
        /\ UNCHANGED <<articles, embeddings, clusters, members, inflight, last, call, txn, scorer>>

\* the head of the loop body for the next article of the batch: the
\* article_exists test and the tests on title and text
StoreArticlesCheck(g) ==
    /\ ingest[g].pc = "check"
    /\ ingest[g].batch # <<>>
    /\ LET article == Head(ingest[g].batch) IN
         ingest' =
           IF article.url = NoUrl
           THEN \* KeyError, caught by the except of the loop body
                [ingest EXCEPT ![g].batch = Tail(@), ![g].caught = TRUE]
           ELSE IF ArticleExists(article.url)
           THEN [ingest EXCEPT ![g].batch = Tail(@), ![g].skipped = TRUE]
           ELSE IF ~article.storable
           THEN [ingest EXCEPT ![g].batch = Tail(@)]
           ELSE [ingest EXCEPT ![g].pc = "insert"]
    /\ UNCHANGED <<articles, embeddings, clusters, members, inflight, last, call, txn, scorer>>

\* the state after insert_article of ingester g ended with result r
StoreArticlesInsertDone(g, r) ==
    /\ articles' = r.rows
    /\ ingest' = IF r.ok
                 THEN [ingest EXCEPT ![g].pc = "check", ![g].batch = Tail(@),
                                     ![g].stored_count = @ + 1]
                 ELSE [ingest EXCEPT ![g].pc = "check", ![g].batch = Tail(@),
                                     ![g].caught = TRUE]
    /\ UNCHANGED <<embeddings, clusters, members, inflight, last, call, txn, scorer>>

\* self.db.insert_article(...) and stored_count += 1. Each ingester reads a
\* source of its own, so the outlet of a row tells which ingester stored it.
StoreArticlesInsert(g) ==
    /\ ingest[g].pc = "insert"
    /\ Len(articles) < MaxArticles
    /\ StoreArticlesInsertDone(g,
         InsertArticleRow(articles, [url |-> Head(ingest[g].batch).url, outlet |-> g]))

\* return stored_count
StoreArticlesReturn(g) ==
    /\ ingest[g].pc = "check"
    /\ ingest[g].batch = <<>>
    /\ ingest' = [ingest EXCEPT ![g].pc = "idle", ![g].returned = ingest[g].stored_count]
    /\ UNCHANGED <<articles, embeddings, clusters, members, inflight, last, call, txn, scorer>>

NextIngest ==
    \E g \in Ingesters :
        \/ StoreArticlesCall(g)
        \/ StoreArticlesCheck(g)
        \/ StoreArticlesInsert(g)
        \/ StoreArticlesReturn(g)

SpecIngest == Init /\ [][NextIngest]_vars

UniqueUrls(rows) == \A i, j \in 1..Len(rows) : rows[i].url = rows[j].url => i = j

\* C29: whatever store_articles calls ran and however they interleaved, no
\* two rows of the articles table have the same URL, no step changes or
\* removes a row that is already there, and a call returns as stored_count
\* exactly the number of rows it added: an incoming article whose URL is
\* already stored, by an earlier call or by the same batch, adds no row and
\* is not counted.
C29_UrlsStayUnique ==
    [][/\ UniqueUrls(articles')
       /\ Len(articles') >= Len(articles)
       /\ \A i \in 1..Len(articles) : articles'[i] = articles[i]
       /\ \A g \in Ingesters :
            (ingest[g].pc # "idle" /\ ingest'[g].pc = "idle")
              => ingest'[g].returned = OwnRows(g)' - ingest[g].before]_vars

\* C29 witness: one ingester returned after it skipped an article whose URL
\* was already stored and counted one it stored; the other returned after
\* its insert lost the race against the same URL
C29_Witness ==
    /\ \A g \in Ingesters : ingest[g].pc = "idle"
    /\ \E g \in Ingesters :
         ingest[g].skipped /\ ingest[g].returned = 1 /\ ~ingest[g].caught
    /\ \E g \in Ingesters :
         ingest[g].caught /\ ingest[g].returned = 0 /\ ~ingest[g].skipped

-----------------------------------------------------------------------------
(* score_article of the bias scorer and its file cache (SpecScore)           *)

\* the titles and contents of the articles scored; "a:b" with "c" and "a"
\* with "b:c" are different articles with the same cache key
ArgScoreTitles == {<<"a">>, <<"a", ":", "b">>}
ArgScoreContents == {<<"c">>, <<"b", ":", "c">>}

\* _generate_cache_key: the md5 digest of f"{title}:{content}", taken to be
\* different for different strings
CacheKey(title, content) == title \o <<":">> \o content

required_keys == {"scores", "justifications", "bias_phrases", "notable_claims"}
score_keys == {"framing", "omission", "tone", "source_selection", "word_choice"}

\* a parsed JSON object: its keys, the keys of its "scores" and its values
ArgAnswers == {"answer1", "answer2"}
ArgObjects ==
    [keys : {required_keys, required_keys \ {"notable_claims"}, {}},
     scores : {score_keys, score_keys \ {"tone"}},
     values : ArgAnswers]

\* what the model call gives: an exception, a text that is no JSON, or the
\* text of a JSON object
ArgResponses ==
    {[kind |-> "api_error", object |-> <<>>], [kind |-> "no_json", object |-> <<>>]}
      \cup {[kind |-> "json", object |-> o] : o \in ArgObjects}

\* _get_fallback_result: the neutral result
FallbackResult == [keys |-> required_keys, scores |-> score_keys, values |-> "fallback"]

\* the two tests of score_article on the parsed result
Validated(result) == required_keys \subseteq result.keys /\ score_keys \subseteq result.scores

\* _check_cache: the parsed content of the cache file, None without a file
CheckCache(cache_key) ==
    IF cache_key \in DOMAIN scorer.cache
    THEN [hit |-> TRUE, data |-> scorer.cache[cache_key]]
    ELSE [hit |-> FALSE, data |-> <<>>]

\* _save_to_cache: the cache file of the key is written
SaveToCache(cache, cache_key, data) ==
    [k \in DOMAIN cache \cup {cache_key} |-> IF k = cache_key THEN data ELSE cache[k]]

\* the mutant of ScoreResponse: the fallback is saved like a result
ScoreResponseCachingFallback(cache, cache_key, response) ==
    IF response.kind = "json" /\ Validated(response.object)
    THEN [ret |-> response.object, cache |-> SaveToCache(cache, cache_key, response.object)]
    ELSE [ret |-> FallbackResult, cache |-> SaveToCache(cache, cache_key, FallbackResult)]

\* the try block of score_article after the model call: the value returned
\* and the cache left. An exception of the call, a text that json.loads
\* rejects and a ValueError of the two tests all end in the fallback.
ScoreResponse(cache, cache_key, response) ==
    IF response.kind = "json" /\ Validated(response.object)
    THEN [ret |-> response.object, cache |-> SaveToCache(cache, cache_key, response.object)]
    ELSE [ret |-> FallbackResult, cache |-> cache]

InitScore ==
    /\ articles = <<>>
    /\ embeddings = EmptyBag
    /\ clusters = {}
    /\ members = {}
    /\ inflight = Idle
    /\ last = NoOp
    /\ call = NoCall
    /\ txn = NoTransactions
    /\ ingest = NoIngest
    /\ scorer \in [prompt_template : {"file", "default"}, cache : {<<>>}]

\* the state after score_article(title, content) looked into the cache with
\* result cached and, on a miss with a template that formats, got response
\* from the model
ScoreArticleDone(title, content, cached, response) ==
    /\ IF cached.hit
       THEN /\ call' = [op |-> "score_article", title |-> title, content |-> content,
                        raised |-> FALSE, model_called |-> FALSE, ret |-> cached.data]
            /\ scorer' = scorer
       ELSE IF scorer.prompt_template = "default"
       THEN \* str.format raises KeyError on the braces of the JSON example
            /\ call' = [op |-> "score_article", title |-> title, content |-> content,
                        raised |-> TRUE, model_called |-> FALSE, ret |-> <<>>]
            /\ scorer' = scorer
       ELSE LET r == ScoreResponse(scorer.cache, CacheKey(title, content), response) IN
            /\ call' = [op |-> "score_article", title |-> title, content |-> content,
                        raised |-> FALSE, model_called |-> TRUE, ret |-> r.ret]
            /\ scorer' = [scorer EXCEPT !.cache = r.cache]
    /\ UNCHANGED <<articles, embeddings, clusters, members, inflight, last, txn, ingest>>

\* score_article(title, content)
ScoreArticle ==
    \E title \in ArgScoreTitles, content \in ArgScoreContents, response \in ArgResponses :
        ScoreArticleDone(title, content, CheckCache(CacheKey(title, content)), response)

NextScore == ScoreArticle

SpecScore == InitScore /\ [][NextScore]_vars

Scored(c) == c.op = "score_article" /\ ~c.raised

SameArticle(c, d) == c.title = d.title /\ c.content = d.content

====
